---- MODULE Spec2Model ----
(***************************************************************************)
(* Model of the radscraper extraction pipeline                             *)
(* (src/src/ingestion/radiopaedia.py): scrape_case and scrape_article.     *)
(*                                                                         *)
(* Text is a sequence of one-character strings, so that clean_text,        *)
(* lower(), replace(), re.findall(r'\d+') and the f-strings are computed   *)
(* character by character.  An Optional value is a sequence of length at   *)
(* most one: None is << >>, a present value v is << v >>.                  *)
(***************************************************************************)
EXTENDS Integers, Sequences, FiniteSets

None == << >>
Some(v) == << v >>

(***************************************************************************)
(* Python string primitives used by the scraper.                           *)
(***************************************************************************)
\* Characters matched by the regular expression class \s and by str.strip().
IsSpace(c) == c \in {" ", "\n", "\t"}

\* Characters matched by the regular expression class \d.
Digits == <<"0", "1", "2", "3", "4", "5", "6", "7", "8", "9">>

IsDigit(c) == \E i \in 1..Len(Digits) : Digits[i] = c

DigitValue(c) == (CHOOSE i \in 1..Len(Digits) : Digits[i] = c) - 1

\* str.lower() on the letters the sample documents use.
LowerChar(c) ==
    CASE c = "A" -> "a"
      [] c = "B" -> "b"
      [] c = "C" -> "c"
      [] c = "D" -> "d"
      [] c = "E" -> "e"
      [] c = "F" -> "f"
      [] c = "G" -> "g"
      [] c = "I" -> "i"
      [] c = "M" -> "m"
      [] c = "S" -> "s"
      [] c = "T" -> "t"
      [] c = "U" -> "u"
      [] c = "X" -> "x"
      [] OTHER -> c

Lower(t) == [i \in 1..Len(t) |-> LowerChar(t[i])]

\* re.sub(r'\s+', ' ', text): every maximal run of whitespace becomes one space.
RECURSIVE CollapseSpace(_)
CollapseSpace(t) ==
    IF t = << >> THEN << >>
    ELSE IF IsSpace(Head(t))
         THEN IF Len(t) > 1 /\ IsSpace(t[2])
              THEN CollapseSpace(Tail(t))
              ELSE <<" ">> \o CollapseSpace(Tail(t))
         ELSE <<Head(t)>> \o CollapseSpace(Tail(t))

\* str.strip(): leading and trailing whitespace removed.
RECURSIVE LStrip(_)
LStrip(t) == IF t # << >> /\ IsSpace(Head(t)) THEN LStrip(Tail(t)) ELSE t

RECURSIVE RStrip(_)
RStrip(t) ==
    IF t # << >> /\ IsSpace(t[Len(t)]) THEN RStrip(SubSeq(t, 1, Len(t) - 1)) ELSE t

Strip(t) == RStrip(LStrip(t))

\* clean_text(text) for a str argument ("" is falsy and returns "").
clean_text(text) == IF text = << >> THEN << >> ELSE Strip(CollapseSpace(text))

\* needle in hay (substring test).
StartsWith(hay, needle) ==
    Len(needle) <= Len(hay) /\ SubSeq(hay, 1, Len(needle)) = needle

RECURSIVE Contains(_, _)
Contains(hay, needle) ==
    \/ StartsWith(hay, needle)
    \/ hay # << >> /\ Contains(Tail(hay), needle)

\* s.replace(old, new): leftmost non-overlapping occurrences, left to right.
\* With old = "" Python inserts new between all characters.
RECURSIVE Replace(_, _, _)
Replace(s, old, new) ==
    IF old = << >>
    THEN IF s = << >> THEN new ELSE new \o <<Head(s)>> \o Replace(Tail(s), old, new)
    ELSE IF s = << >> THEN << >>
    ELSE IF StartsWith(s, old)
         THEN new \o Replace(SubSeq(s, Len(old) + 1, Len(s)), old, new)
         ELSE <<Head(s)>> \o Replace(Tail(s), old, new)

\* sep.join(parts)
RECURSIVE Join(_, _)
Join(sep, parts) ==
    IF parts = << >> THEN << >>
    ELSE IF Len(parts) = 1 THEN parts[1]
    ELSE parts[1] \o sep \o Join(sep, Tail(parts))

\* re.findall(r'\d+', value)[0]: the first maximal run of digits (<< >> if none).
RECURSIVE DigitPrefix(_)
DigitPrefix(t) ==
    IF t # << >> /\ IsDigit(Head(t)) THEN <<Head(t)>> \o DigitPrefix(Tail(t)) ELSE << >>

RECURSIVE FirstDigitRun(_)
FirstDigitRun(t) ==
    IF t = << >> THEN << >>
    ELSE IF IsDigit(Head(t)) THEN DigitPrefix(t)
    ELSE FirstDigitRun(Tail(t))

\* int(s) for a non-empty string of digits.
RECURSIVE ParseInt(_)
ParseInt(s) ==
    IF s = << >> THEN 0
    ELSE 10 * ParseInt(SubSeq(s, 1, Len(s) - 1)) + DigitValue(s[Len(s)])

\* str(n) for n >= 0.
RECURSIVE IntToStr(_)
IntToStr(n) ==
    IF n < 10 THEN <<Digits[n + 1]>>
    ELSE IntToStr(n \div 10) \o <<Digits[(n % 10) + 1]>>

(***************************************************************************)
(* Bounds of the sample documents.                                         *)
(***************************************************************************)
MaxItems == 2       \* .data-item elements under #case-patient-data
MaxImages == 2      \* <img> elements of the study carousel
MaxChildren == 3    \* direct children of the article's narrative container
MaxEntries == 2     \* entries of the embedded payload's "inclusions" list

SeqsUpTo(S, n) == UNION {[1..k -> S] : k \in 0..n}

Opt(S) == {None} \cup {Some(v) : v \in S}

(***************************************************************************)
(* The parsed page.  Each field is what the selector the scraper uses      *)
(* would find in it: None when the anchor is absent, otherwise the raw     *)
(* text (or the list of matches).                                          *)
(***************************************************************************)
\* A .data-item of #case-patient-data: the raw text of its .data-item-label
\* child (None when it has none) followed by the raw text after the label.
ItemText(item) == (IF item.label = None THEN << >> ELSE item.label[1]) \o item.value

LabelTexts ==
    { <<"A", "g", "e", ":">>,
      <<"S", "e", "x", ":">>,
      <<"\n", "S", "e", "x", ":", "\n">>,
      <<"S", "t", "a", "g", "e", ":">>,
      <<"I", "D", ":">> }

ValueTexts ==
    { <<" ", "3", "4", " ", "y">>,
      <<" ", "F">> }

DataItems == [label : Opt(LabelTexts), value : ValueTexts]

\* src attribute of a carousel <img>: missing, empty, or a URL.
ImageSrcs == {None, Some(<< >>), Some(<<"u", "1">>), Some(<<"u", "2">>)}

\* A direct child of .body.user-generated-content: its tag name ("#text" for a
\* NavigableString, whose .name is None), its raw .text, and for a <ul> the raw
\* texts of the <li> elements find_all('li') returns.
Node(name, text, items) == [name |-> name, text |-> text, items |-> items]

ChildNodes ==
    { Node("h2", <<"A", " ", "b">>, << >>),
      Node("h3", <<"\n", "C", " ">>, << >>),
      Node("h4", <<"D">>, << >>),
      Node("p", <<"x">>, << >>),
      Node("p", <<" ", "y", "\n", "z">>, << >>),
      Node("p", <<" ">>, << >>),
      Node("ul", << >>, << >>),
      Node("ul", <<"i">>, << <<"i">> >>),
      Node("ul", <<"j", "\n", "k", " ">>, << <<"j", "\n", "k">>, <<" ">> >>),
      Node("div", <<"w">>, << >>),
      Node("#text", <<"\n">>, << >>) }

\* A JSON scalar as json.loads returns it: a str or an int.
JStr(s) == [k |-> "str", s |-> s, n |-> 0]
JNum(n) == [k |-> "num", s |-> << >>, n |-> n]

\* An entry of the "inclusions" list: a JSON object (its keys optional) or a
\* value that is not an object.
JEntry(k, imageId, caption, thumbnail) ==
    [k |-> k, imageId |-> imageId, caption |-> caption, thumbnail |-> thumbnail]

Entries ==
    { JEntry("object", Some(JStr(<<"5">>)), Some(JStr(<<"c">>)), Some(JStr(<<"u">>))),
      JEntry("object", Some(JNum(7)), Some(JStr(<<"d">>)), None),
      JEntry("object", None, None, None),
      JEntry("string", None, None, None) }

\* The text of the hidden data node, by what json.loads makes of it:
\*   "invalid"  not JSON (json.loads raises),
\*   "array"    a top-level list,
\*   "object"   a top-level object; inclusions is None when the key is missing,
\*              otherwise its value: a list of entries or null.
JPayload(k, inclusions) == [k |-> k, inclusions |-> inclusions]
JList(items) == [k |-> "list", items |-> items]
JNull == [k |-> "null", items |-> << >>]

Payloads ==
    { JPayload("invalid", None), JPayload("array", None),
      JPayload("object", None), JPayload("object", Some(JNull)) }
    \cup { JPayload("object", Some(JList(es))) : es \in SeqsUpTo(Entries, MaxEntries) }

Page(h, r, d, s, t, p, g, f, c, imgs, kids, v) ==
    [h1 |-> h, rid |-> r, date |-> d, system |-> s, tags |-> t,
     patient |-> p, diag |-> g, findings |-> f,
     discussion |-> c, carousel |-> imgs, content |-> kids,
     viewer |-> v]

TitleText == <<" ", "C", "y", "s", "t", "\n">>
RidText == <<"\n", "8", "6">>
DateText == <<"2", "0", "2", "0">>
SystemText == <<"C", "h", "e", "s", "t", " ">>
TagLists == { << >>, << <<"c", "t">> >>, << <<" ", "m", "r">>, <<"c", "t">> >> }
ProseText == <<"f", " ", " ", "g">>

\* A page with every anchor present and nothing to iterate over.
FullPage ==
    Page(Some(TitleText), Some(RidText), Some(DateText), Some(SystemText),
         << <<"c", "t">> >>, None, Some(ProseText), Some(ProseText),
         Some(ProseText), << >>, None, None)

\* Case pages: every combination of present and absent anchors; every patient
\* block; every carousel, with and without the identifier region.
CaseAnchorPages ==
    { Page(h, r, d, s, t, None, g, f, c, << >>, None, None) :
        h \in Opt({TitleText}), r \in Opt({RidText}), d \in Opt({DateText}),
        s \in Opt({SystemText}), t \in TagLists, g \in Opt({ProseText}),
        f \in Opt({ProseText}), c \in Opt({ProseText}) }

CasePatientPages ==
    { [FullPage EXCEPT !.patient = Some(items)] : items \in SeqsUpTo(DataItems, MaxItems) }

CaseCarouselPages ==
    { [FullPage EXCEPT !.rid = r, !.carousel = imgs] :
        r \in Opt({RidText}), imgs \in SeqsUpTo(ImageSrcs, MaxImages) }

CasePages == CaseAnchorPages \cup CasePatientPages \cup CaseCarouselPages

\* Article pages: every combination of anchors; every narrative container;
\* every embedded payload.
ArticleAnchorPages ==
    { Page(h, r, None, s, t, None, None, None, None, << >>, c, v) :
        h \in Opt({TitleText}), r \in Opt({RidText}), s \in Opt({SystemText}),
        t \in TagLists, c \in Opt({<< >>}), v \in Opt({JPayload("object", None)}) }

ArticleContentPages ==
    { [FullPage EXCEPT !.content = Some(cs)] : cs \in SeqsUpTo(ChildNodes, MaxChildren) }

ArticleViewerPages ==
    { [FullPage EXCEPT !.viewer = Some(p)] : p \in Payloads }

ArticlePages == ArticleAnchorPages \cup ArticleContentPages \cup ArticleViewerPages

\* What requests.get can come back with: an exception, or a response with a
\* status code and a body.
TransportErrors == {"ConnectionError", "Timeout"}
Statuses == {200, 300, 404, 500}

(***************************************************************************)
(* String literals of the scraper.                                         *)
(***************************************************************************)
Untitled == <<"U", "n", "t", "i", "t", "l", "e", "d">>
UnknownId == <<"u", "n", "k", "n", "o", "w", "n">>
UnknownSystem == <<"U", "n", "k", "n", "o", "w", "n">>
RidPrefix == <<"r", "I", "D", "-">>
ImgInfix == <<"_", "i", "m", "g", "_">>
Introduction == <<"I", "n", "t", "r", "o", "d", "u", "c", "t", "i", "o", "n">>
NowStamp == <<"n", "o", "w">>     \* datetime.utcnow().isoformat()

(***************************************************************************)
(* State: the position in the running invocation, the response, the parsed *)
(* tree, the locals of scrape_case / scrape_article, and what the caller   *)
(* gets: a returned record or a raised exception.                          *)
(***************************************************************************)
VARIABLES pc, fn, resp, soup, err, caught, result,
          source_id, created_at, title, body_system, tags,
          patient, diagnosis, narrative, images, idx,
          sections, current_section

vars == <<pc, fn, resp, soup, err, caught, result,
          source_id, created_at, title, body_system, tags,
          patient, diagnosis, narrative, images, idx,
          sections, current_section>>

transport == <<fn, resp, soup, err, caught, result>>
metadata == <<source_id, created_at, title, body_system, tags>>
caseLocals == <<patient, diagnosis, narrative>>
articleLocals == <<sections, current_section>>

EmptyPatient == [age |-> None, age_unit |-> "years", sex |-> None, other |-> None]
EmptyNarrative == [findings |-> << >>, impression |-> << >>, discussion |-> << >>]
EmptyDiagnosis == [text |-> << >>, certainty |-> << >>]
EmptySection == [title |-> << >>, text |-> << >>]

\* The frame of an invocation before it runs: nothing parsed, no local assigned.
FreshFrame ==
    /\ soup = None /\ caught = "" /\ result = None
    /\ source_id = << >> /\ created_at = << >> /\ title = << >>
    /\ body_system = << >> /\ tags = << >>
    /\ patient = EmptyPatient /\ diagnosis = EmptyDiagnosis
    /\ narrative = EmptyNarrative /\ images = << >> /\ idx = 0
    /\ sections = << >> /\ current_section = EmptySection

Init ==
    /\ pc = "idle" /\ fn = "none" /\ resp = None /\ err = ""
    /\ FreshFrame

\* An exception leaves the function: the caller gets it and no record.
Raise(e) == /\ pc' = "raised" /\ err' = e /\ result' = None

(***************************************************************************)
(* requests.get(url, headers=HEADERS); resp.raise_for_status();            *)
(* BeautifulSoup(resp.text, 'html.parser')                                 *)
(***************************************************************************)
\* What requests.get does: it raises, or it returns a response.
Fetched(pages) ==
    \/ \E e \in TransportErrors :
         /\ resp' = None
         /\ pc' = "raised" /\ err' = e
    \/ \E st \in Statuses, body \in pages :
         /\ resp' = Some([status |-> st, body |-> body])
         /\ pc' = "status" /\ err' = ""

\* A raise_for_status that lets client errors through.
RaisesForStatus_ServerOnly(status) == 500 <= status /\ status < 600

\* Response.raise_for_status raises HTTPError for 4xx and 5xx.
RaisesForStatus(status) == 400 <= status /\ status < 600

(***************************************************************************)
(* scrape_case                                                             *)
(***************************************************************************)
\* f"rID-{clean_text(rid_div.text)}" if rid_div else "unknown"
SourceId(rid) == IF rid = None THEN UnknownId ELSE RidPrefix \o clean_text(rid[1])

\* clean_text(el.text) if el else default
TextOr(el, default) == IF el = None THEN default ELSE clean_text(el[1])

\* [clean_text(a.text) for a in soup.select('.meta-item-tags .col-sm-8 a')]
CleanAll(texts) == [i \in 1..Len(texts) |-> clean_text(texts[i])]

\* A caller starts scrape_case: resp = requests.get(url, headers=HEADERS)
CaseGet ==
    /\ pc = "idle"
    /\ fn' = "scrape_case"
    /\ UNCHANGED <<soup, caught, result, metadata, caseLocals, images, idx,
                   articleLocals>>
    /\ Fetched(CasePages)

\* resp.raise_for_status()
CaseCheckStatus ==
    /\ pc = "status" /\ fn = "scrape_case"
    /\ IF RaisesForStatus(resp[1].status)
       THEN Raise("HTTPError")
       ELSE /\ pc' = "parse"
            /\ UNCHANGED <<err, result>>
    /\ UNCHANGED <<fn, resp, soup, caught, metadata, caseLocals, images, idx,
                   articleLocals>>

\* soup = BeautifulSoup(resp.text, 'html.parser')
CaseParse ==
    /\ pc = "parse" /\ fn = "scrape_case"
    /\ soup' = Some(resp[1].body)
    /\ pc' = "case_meta"
    /\ UNCHANGED <<fn, resp, err, caught, result, metadata, caseLocals, images,
                   idx, articleLocals>>

\* 1. Metadata & Source ID, dates, 2. basic info, body system, tags.
CaseMetadata ==
    /\ pc = "case_meta"
    /\ source_id' = SourceId(soup[1].rid)
    /\ created_at' = IF soup[1].date = None THEN NowStamp ELSE soup[1].date[1]
    /\ title' = TextOr(soup[1].h1, Untitled)
    /\ body_system' = TextOr(soup[1].system, UnknownSystem)
    /\ tags' = CleanAll(soup[1].tags)
    /\ pc' = "case_patient"
    /\ UNCHANGED <<transport, caseLocals, images, idx, articleLocals>>

\* One pass of the body of "for item in patient_data.select('.data-item')",
\* for an item that has a .data-item-label.
PatientLabel(item) == Lower(clean_text(item.label[1]))

PatientValue(item) == Replace(clean_text(ItemText(item)), item.label[1], << >>)

PatientAfter(p, item) ==
    IF Contains(PatientLabel(item), <<"a", "g", "e">>)
    THEN IF FirstDigitRun(PatientValue(item)) # << >>
         THEN [p EXCEPT !.age = Some(ParseInt(FirstDigitRun(PatientValue(item))))]
         ELSE p
    ELSE IF \/ Contains(PatientLabel(item), <<"g", "e", "n", "d", "e", "r">>)
            \/ Contains(PatientLabel(item), <<"s", "e", "x">>)
         THEN [p EXCEPT !.sex = Some(Lower(PatientValue(item)))]
         ELSE p

\* 3. Patient data: the dict, the anchor, and whether there is anything to loop over.
CasePatientSelect ==
    /\ pc = "case_patient"
    /\ patient' = EmptyPatient
    /\ IF soup[1].patient # None /\ soup[1].patient[1] # << >>
       THEN pc' = "case_item" /\ idx' = 1
       ELSE pc' = "case_diag" /\ idx' = 0
    /\ UNCHANGED <<transport, metadata, diagnosis, narrative, images, articleLocals>>

\* One .data-item.  item.select_one('.data-item-label') is None for an item
\* without a label element, and None.text raises AttributeError.
CasePatientItem ==
    /\ pc = "case_item"
    /\ LET items == soup[1].patient[1]
           item == items[idx]
       IN IF item.label = None
          THEN /\ Raise("AttributeError")
               /\ UNCHANGED <<patient, idx>>
          ELSE /\ patient' = PatientAfter(patient, item)
               /\ IF idx < Len(items)
                  THEN pc' = "case_item" /\ idx' = idx + 1
                  ELSE pc' = "case_diag" /\ idx' = 0
               /\ UNCHANGED <<err, result>>
    /\ UNCHANGED <<fn, resp, soup, caught, metadata, diagnosis, narrative, images,
                   articleLocals>>

\* 5. Diagnosis, 6. narrative.
CaseNarrative ==
    /\ pc = "case_diag"
    /\ diagnosis' = [text |-> title, certainty |-> TextOr(soup[1].diag, UnknownId)]
    /\ narrative' = [findings |-> TextOr(soup[1].findings, << >>),
                     impression |-> << >>,
                     discussion |-> TextOr(soup[1].discussion, << >>)]
    /\ images' = << >>
    /\ IF soup[1].carousel # << >>
       THEN pc' = "case_image" /\ idx' = 0
       ELSE pc' = "case_return" /\ idx' = 0
    /\ UNCHANGED <<transport, metadata, patient, articleLocals>>

\* An identifier numbered from the 0-based loop index.
CaseImageId_ZeroBased(sid, i) == sid \o ImgInfix \o IntToStr(i)

\* CaseImage(image_id=f"{source_id}_img_{idx+1}", ..., filepath=src, ...)
CaseImageId(sid, i) == sid \o ImgInfix \o IntToStr(i + 1)

CaseImage(sid, i, src) ==
    [image_id |-> CaseImageId(sid, i), modality |-> "Unknown", plane |-> "Unknown",
     filepath |-> src,
     caption |-> <<"I", "m", "a", "g", "e", " ">> \o IntToStr(i + 1)
                 \o <<" ", "f", "r", "o", "m", " ", "c", "a", "s", "e">>,
     annotations |-> << >>]

\* img.get('src') is falsy: the attribute is missing or empty.
NoSrc(src) == src = None \/ src[1] = << >>

\* 7. Images: one pass of "for idx, img in enumerate(carousel_items)".
CaseImageItem ==
    /\ pc = "case_image"
    /\ LET imgs == soup[1].carousel
           src == imgs[idx + 1]
       IN /\ images' = IF NoSrc(src) THEN images
                       ELSE Append(images, CaseImage(source_id, idx, src[1]))
          /\ IF idx + 1 < Len(imgs)
             THEN pc' = "case_image" /\ idx' = idx + 1
             ELSE pc' = "case_return" /\ idx' = 0
    /\ UNCHANGED <<transport, metadata, caseLocals, articleLocals>>

\* return Case(...): the keyword arguments the call passes.
CaseRecord ==
    [source |-> "radiopaedia", source_id |-> source_id, title |-> title,
     body_system |-> body_system, body_part |-> "Unknown",
     modality |-> IF \E i \in 1..Len(tags) : tags[i] = <<"c", "t">>
                  THEN <<"CT">> ELSE <<"X-ray">>,
     clinical_presentation |-> "Not explicitly stated",
     diagnosis |-> diagnosis, narrative |-> narrative, images |-> images,
     tags |-> tags,
     metadata |-> [created_at |-> created_at, license |-> "See Radiopaedia ToS"]]

CaseReturn ==
    /\ pc = "case_return"
    /\ result' = Some(CaseRecord)
    /\ pc' = "returned"
    /\ UNCHANGED <<fn, resp, soup, err, caught, metadata, caseLocals, images, idx,
                   articleLocals>>

NextCase ==
    \/ CaseGet \/ CaseCheckStatus \/ CaseParse \/ CaseMetadata
    \/ CasePatientSelect \/ CasePatientItem \/ CaseNarrative
    \/ CaseImageItem \/ CaseReturn

SpecCase == Init /\ [][NextCase]_vars

(***************************************************************************)
(* scrape_article                                                          *)
(***************************************************************************)
\* A caller starts scrape_article: resp = requests.get(url, headers=HEADERS)
ArticleGet ==
    /\ pc = "idle"
    /\ fn' = "scrape_article"
    /\ UNCHANGED <<soup, caught, result, metadata, caseLocals, images, idx,
                   articleLocals>>
    /\ Fetched(ArticlePages)

\* resp.raise_for_status()
ArticleCheckStatus ==
    /\ pc = "status" /\ fn = "scrape_article"
    /\ IF RaisesForStatus(resp[1].status)
       THEN Raise("HTTPError")
       ELSE /\ pc' = "parse"
            /\ UNCHANGED <<err, result>>
    /\ UNCHANGED <<fn, resp, soup, caught, metadata, caseLocals, images, idx,
                   articleLocals>>

\* soup = BeautifulSoup(resp.text, 'html.parser')
ArticleParse ==
    /\ pc = "parse" /\ fn = "scrape_article"
    /\ soup' = Some(resp[1].body)
    /\ pc' = "art_basic"
    /\ UNCHANGED <<fn, resp, err, caught, result, metadata, caseLocals, images,
                   idx, articleLocals>>

\* Basic info.  soup.select_one('h1.header-title') is None on a page without
\* the heading, and None.text raises AttributeError.
ArticleBasic ==
    /\ pc = "art_basic"
    /\ IF soup[1].h1 = None
       THEN /\ Raise("AttributeError")
            /\ UNCHANGED <<title, source_id, body_system>>
       ELSE /\ title' = clean_text(soup[1].h1[1])
            /\ source_id' = SourceId(soup[1].rid)
            /\ body_system' = TextOr(soup[1].system, UnknownSystem)
            /\ pc' = "art_sections"
            /\ UNCHANGED <<err, result>>
    /\ UNCHANGED <<fn, resp, soup, caught, created_at, tags, caseLocals, images,
                   idx, articleLocals>>

\* ArticleSection(slug=title.lower().replace(' ', '_'), title=title,
\*                markdown="\n".join(text))
ArticleSection(cur) ==
    [slug |-> Replace(Lower(cur.title), <<" ">>, <<"_">>),
     title |-> cur.title,
     markdown |-> Join(<<"\n">>, cur.text)]

\* A flush that puts the finished section in front of the earlier ones.
Flushed_Prepend(secs, cur) ==
    IF cur.text # << >> THEN <<ArticleSection(cur)>> \o secs ELSE secs

\* "if current_section["text"]: sections.append(ArticleSection(...))"
\* A list is truthy when it has an element.
Flushed(secs, cur) == IF cur.text # << >> THEN Append(secs, ArticleSection(cur)) ELSE secs

\* List items appended without the "- " prefix.
ListLines_NoPrefix(child) == child.items

\* [f"- {li.text}" for li in child.find_all('li')]
ListLines(child) == [i \in 1..Len(child.items) |-> <<"-", " ">> \o child.items[i]]

\* current_section['text'].append(clean_text(child.text))
ParagraphLine(child) == clean_text(child.text)

IsHeading(child) == child.name \in {"h2", "h3", "h4"}

\* Sections: the list, the container, the seeded buffer.
ArticleSectionsSelect ==
    /\ pc = "art_sections"
    /\ sections' = << >>
    /\ IF soup[1].content = None
       THEN /\ pc' = "art_viewer" /\ idx' = 0
            /\ UNCHANGED current_section
       ELSE /\ current_section' = [title |-> Introduction, text |-> << >>]
            /\ IF soup[1].content[1] # << >>
               THEN pc' = "art_child" /\ idx' = 1
               ELSE pc' = "art_flush" /\ idx' = 0
    /\ UNCHANGED <<transport, metadata, caseLocals, images>>

\* The loop "for child in content_div.children" moves to the next child, or ends.
NextChild ==
    IF idx < Len(soup[1].content[1])
    THEN pc' = "art_child" /\ idx' = idx + 1
    ELSE pc' = "art_flush" /\ idx' = 0

\* child.name in ['h2', 'h3', 'h4']: save the previous buffer, start a new one.
SegHeading ==
    /\ pc = "art_child"
    /\ LET child == soup[1].content[1][idx]
       IN /\ IsHeading(child)
          /\ sections' = Flushed(sections, current_section)
          /\ current_section' = [title |-> clean_text(child.text), text |-> << >>]
    /\ NextChild
    /\ UNCHANGED <<transport, metadata, caseLocals, images>>

\* child.name == 'p'
SegParagraph ==
    /\ pc = "art_child"
    /\ LET child == soup[1].content[1][idx]
       IN /\ child.name = "p"
          /\ current_section' =
                [current_section EXCEPT !.text = Append(@, ParagraphLine(child))]
    /\ NextChild
    /\ UNCHANGED <<transport, metadata, caseLocals, images, sections>>

\* child.name == 'ul'
SegList ==
    /\ pc = "art_child"
    /\ LET child == soup[1].content[1][idx]
       IN /\ child.name = "ul"
          /\ current_section' =
                [current_section EXCEPT !.text = @ \o ListLines(child)]
    /\ NextChild
    /\ UNCHANGED <<transport, metadata, caseLocals, images, sections>>

\* Any other child (another element, a text node) matches no branch.
SegOther ==
    /\ pc = "art_child"
    /\ LET child == soup[1].content[1][idx]
       IN ~IsHeading(child) /\ child.name \notin {"p", "ul"}
    /\ NextChild
    /\ UNCHANGED <<transport, metadata, caseLocals, images, articleLocals>>

\* Append last.
SegFlush ==
    /\ pc = "art_flush"
    /\ sections' = Flushed(sections, current_section)
    /\ pc' = "art_viewer"
    /\ UNCHANGED <<transport, metadata, caseLocals, images, idx, current_section>>

\* str(item.get('imageId', 'unknown'))
PyStr(v) == IF v.k = "num" THEN IntToStr(v.n) ELSE v.s

GetOr(field, default) == IF field = None THEN default ELSE field[1]

\* ArticleImage(image_id=..., figure_label=None, modality="Unknown", plane=None,
\*              caption=item.get('caption', ''), filepath=item.get('thumbnail', ''))
ArticleImage(item) ==
    [image_id |-> PyStr(GetOr(item.imageId, JStr(UnknownId))),
     figure_label |-> None,
     modality |-> Some("Unknown"),
     plane |-> None,
     caption |-> GetOr(item.caption, JStr(<< >>)),
     filepath |-> GetOr(item.thumbnail, JStr(<< >>))]

\* Images: the list, the hidden data node, json.loads, data.get('inclusions', []),
\* and the start of the for loop.  Every exception inside the try is swallowed
\* by the bare "except: pass".
ArticleViewerSelect ==
    /\ pc = "art_viewer"
    /\ images' = << >>
    /\ LET node == soup[1].viewer
       IN IF node = None
          THEN pc' = "art_return" /\ idx' = 0 /\ caught' = ""
          ELSE IF node[1].k = "invalid"
          THEN pc' = "art_return" /\ idx' = 0 /\ caught' = "JSONDecodeError"
          ELSE IF node[1].k # "object"
          THEN pc' = "art_return" /\ idx' = 0 /\ caught' = "AttributeError"
          ELSE IF node[1].inclusions = None
          THEN pc' = "art_return" /\ idx' = 0 /\ caught' = ""
          ELSE IF node[1].inclusions[1].k # "list"
          THEN pc' = "art_return" /\ idx' = 0 /\ caught' = "TypeError"
          ELSE IF node[1].inclusions[1].items = << >>
          THEN pc' = "art_return" /\ idx' = 0 /\ caught' = ""
          ELSE pc' = "art_entry" /\ idx' = 1 /\ caught' = ""
    /\ UNCHANGED <<fn, resp, soup, err, result, metadata, caseLocals, articleLocals>>

\* One pass of "for item in data.get('inclusions', [])".  item.get on an entry
\* that is not an object raises AttributeError, which ends the loop.
ArticleEntry ==
    /\ pc = "art_entry"
    /\ LET items == soup[1].viewer[1].inclusions[1].items
           item == items[idx]
       IN IF item.k # "object"
          THEN /\ caught' = "AttributeError"
               /\ pc' = "art_return" /\ idx' = 0
               /\ UNCHANGED images
          ELSE /\ images' = Append(images, ArticleImage(item))
               /\ IF idx < Len(items)
                  THEN pc' = "art_entry" /\ idx' = idx + 1
                  ELSE pc' = "art_return" /\ idx' = 0
               /\ UNCHANGED caught
    /\ UNCHANGED <<fn, resp, soup, err, result, metadata, caseLocals, articleLocals>>

\* tags, and return Article(...): the keyword arguments the call passes.
ArticleRecord(tgs) ==
    [source |-> "radiopaedia", source_id |-> source_id, type |-> "article",
     title |-> title, body_system |-> body_system, body_part |-> None,
     sections |-> sections, images |-> images, tags |-> tgs,
     metadata |-> [created_at |-> NowStamp, license |-> "See Radiopaedia ToS"]]

ArticleReturn ==
    /\ pc = "art_return"
    /\ tags' = CleanAll(soup[1].tags)
    /\ created_at' = NowStamp
    /\ result' = Some(ArticleRecord(tags'))
    /\ pc' = "returned"
    /\ UNCHANGED <<fn, resp, soup, err, caught, source_id, title, body_system,
                   caseLocals, images, idx, articleLocals>>

NextArticle ==
    \/ ArticleGet \/ ArticleCheckStatus \/ ArticleParse \/ ArticleBasic
    \/ ArticleSectionsSelect \/ SegHeading \/ SegParagraph \/ SegList \/ SegOther
    \/ SegFlush \/ ArticleViewerSelect \/ ArticleEntry \/ ArticleReturn

SpecArticle == Init /\ [][NextArticle]_vars

Next == NextCase \/ NextArticle

Spec == Init /\ [][Next]_vars

(***************************************************************************)
(* Properties.                                                             *)
(***************************************************************************)
Page0 == soup[1]
Fetched200 == soup # None
IsCase == fn = "scrape_case"
IsArticle == fn = "scrape_article"

\* C1: once the page has been fetched, scrape_case and scrape_article return
\* a record whichever anchors are missing: no exception reaches the caller,
\* and a missing title, identifier, body system or tag list shows up in the
\* record as "Untitled", "unknown", "Unknown" and the empty list.
C1_RecordForEveryFetchedPage ==
    /\ Fetched200 => err = "" /\ pc # "raised"
    /\ pc = "returned" =>
         /\ result # None
         /\ Page0.h1 = None => result[1].title = Untitled
         /\ Page0.rid = None => result[1].source_id = UnknownId
         /\ Page0.system = None => result[1].body_system = UnknownSystem
         /\ Page0.tags = << >> => result[1].tags = << >>

\* A status raise_for_status treats as a failure, and a failed fetch.
ErrorStatus(st) == st \div 100 \in {4, 5}

TransportFailed == pc # "idle" /\ (resp = None \/ ErrorStatus(resp[1].status))

\* C2: a transport failure (requests.get raising, or a 4xx/5xx status) ends the
\* invocation with the error raised to the caller before any parsing or
\* extraction step has run, and no record is returned; a record is returned
\* only after a successful fetch.
C2_TransportFailureRaisedBeforeParsing ==
    /\ TransportFailed =>
         /\ pc \in {"status", "raised"}
         /\ FreshFrame
         /\ pc = "raised" => err \in TransportErrors \cup {"HTTPError"}
    /\ result # None => resp # None /\ ~ErrorStatus(resp[1].status) /\ soup # None

C2_Witness ==
    /\ pc = "raised" /\ err = "HTTPError"
    /\ resp # None /\ resp[1].status = 404 /\ result = None

\* Reading the embedded payload fails: the text is not JSON, the top-level
\* value is not an object, the value under "inclusions" is not a list, or the
\* list holds an entry that is not an object.
PayloadFails(p) ==
    \/ p.k # "object"
    \/ /\ p.inclusions # None
       /\ \/ p.inclusions[1].k # "list"
          \/ \E i \in 1..Len(p.inclusions[1].items) :
               p.inclusions[1].items[i].k # "object"

\* C3: when the hidden data node is absent, or reading its payload fails at
\* any point (also at an entry that follows valid entries), the article is
\* returned without an error and its image list is empty, never a prefix of
\* the payload's entries.
C3_FailedPayloadGivesNoImages ==
    (IsArticle /\ Fetched200 /\ Page0.h1 # None
       /\ (Page0.viewer = None \/ PayloadFails(Page0.viewer[1]))) =>
      /\ err = "" /\ pc # "raised"
      /\ pc = "returned" => result # None /\ result[1].images = << >>

\* The payload decodes: a top-level object whose "inclusions" is a list of objects.
PayloadDecodes(p) ==
    /\ p.k = "object" /\ p.inclusions # None /\ p.inclusions[1].k = "list"
    /\ \A i \in 1..Len(p.inclusions[1].items) : p.inclusions[1].items[i].k = "object"

\* C4: when the payload decodes, the returned image list has one ArticleImage
\* per entry of "inclusions", in payload order: identifier str(imageId), or
\* "unknown" when the entry has none; caption and file reference the entry's
\* caption and thumbnail; modality and plane both None.
C4_OneImagePerEntry ==
    (IsArticle /\ pc = "returned" /\ Page0.viewer # None
       /\ PayloadDecodes(Page0.viewer[1])) =>
      LET items == Page0.viewer[1].inclusions[1].items
          imgs == result[1].images
      IN /\ Len(imgs) = Len(items)
         /\ \A i \in 1..Len(items) :
              /\ items[i].imageId = None => imgs[i].image_id = UnknownId
              /\ items[i].imageId # None /\ items[i].imageId[1].k = "str" =>
                   imgs[i].image_id = items[i].imageId[1].s
              /\ items[i].imageId # None /\ items[i].imageId[1].k = "num" =>
                   ParseInt(imgs[i].image_id) = items[i].imageId[1].n
              /\ items[i].caption # None => imgs[i].caption = items[i].caption[1]
              /\ items[i].thumbnail # None => imgs[i].filepath = items[i].thumbnail[1]
              /\ imgs[i].modality = None
              /\ imgs[i].plane = None

\* The segmenter has finished: its last flush has run.
Segmented == IsArticle /\ pc \in {"art_viewer", "art_entry", "art_return", "returned"}

HasHeading(children) == \E i \in 1..Len(children) : IsHeading(children[i])

\* The lines the content of a run of children amounts to, in document order:
\* a paragraph's normalized text; each item of a list behind "- ".
RECURSIVE ContentLines(_)
ContentLines(children) ==
    IF children = << >> THEN << >>
    ELSE LET c == Head(children)
             own == IF c.name = "p" THEN <<clean_text(c.text)>>
                    ELSE IF c.name = "ul"
                         THEN [i \in 1..Len(c.items) |-> <<"-", " ">> \o c.items[i]]
                         ELSE << >>
         IN own \o ContentLines(Tail(children))

\* C5: for a narrative container with no h2/h3/h4 among its direct children,
\* segmentation yields at most one section; if it yields one, its title is
\* "Introduction" and its body is the lines of all paragraph children and
\* all list items (each behind "- ") in document order; it yields none only
\* when there is no paragraph and no list item.
C5_NoHeadingOneIntroduction ==
    (Segmented /\ Page0.content # None /\ ~HasHeading(Page0.content[1])) =>
      LET lines == ContentLines(Page0.content[1])
      IN /\ Len(sections) <= 1
         /\ Len(sections) = 1 =>
              /\ sections[1].title = Introduction
              /\ sections[1].markdown = Join(<<"\n">>, lines)
         /\ Len(sections) = 0 => lines = << >>

C5_Witness ==
    /\ pc = "returned" /\ IsArticle /\ Page0.content # None
    /\ ~HasHeading(Page0.content[1])
    /\ Len(Page0.content[1]) = 3
    /\ Page0.content[1][1].name = "ul" /\ Len(Page0.content[1][1].items) = 2
    /\ Page0.content[1][2].name = "div"
    /\ Page0.content[1][3].name = "p"
    /\ Len(result[1].sections) = 1

\* Where a section starts: 0 for the content before the first heading,
\* otherwise the position of its heading among the children.
SectionStarts(children) == {0} \cup {i \in 1..Len(children) : IsHeading(children[i])}

\* The last child before the next heading (or the last child).
SegmentEnd(children, start) ==
    IF \E j \in (start + 1)..Len(children) : IsHeading(children[j])
    THEN (CHOOSE j \in (start + 1)..Len(children) :
            /\ IsHeading(children[j])
            /\ \A m \in (start + 1)..(j - 1) : ~IsHeading(children[m])) - 1
    ELSE Len(children)

SegmentTitle(children, start) ==
    IF start = 0 THEN Introduction ELSE clean_text(children[start].text)

SegmentBody(children, start) ==
    Join(<<"\n">>, ContentLines(SubSeq(children, start + 1, SegmentEnd(children, start))))

C9_NoContentEmptySection ==
    \A a \in 1..Len(sections) : sections[a].markdown # << >>

\* A normalized single-line text; a body line without its list prefix.
Normalized(t) == clean_text(t) = t /\ \A i \in 1..Len(t) : t[i] # "\n"

LineText(line) ==
    IF StartsWith(line, <<"-", " ">>) THEN SubSeq(line, 3, Len(line)) ELSE line

\* C10: every line of a section body has passed through the text normalizer:
\* a paragraph line, and the part of a list-item line after "- ", is a
\* single line with whitespace runs collapsed and no leading or trailing
\* whitespace, so that one list item contributes exactly one line.
C10_BodyLinesNormalized ==
    \A i \in 1..Len(current_section.text) : Normalized(LineText(current_section.text[i]))

\* The .data-item elements of the page (none without the #case-patient-data anchor).
PatientItems == IF Page0.patient = None THEN << >> ELSE Page0.patient[1]

\* The item's label names the age field / the gender or sex field.
LabelName(item) == Lower(clean_text(item.label[1]))

IsAgeItem(item) ==
    item.label # None /\ LabelName(item) \in {<<"a", "g", "e">>, <<"a", "g", "e", ":">>}

IsSexItem(item) ==
    /\ item.label # None
    /\ LabelName(item) \in {<<"s", "e", "x">>, <<"s", "e", "x", ":">>,
                            <<"g", "e", "n", "d", "e", "r">>,
                            <<"g", "e", "n", "d", "e", "r", ":">>}

\* C7: without a patient-data anchor age and sex are None; age comes only from
\* an item labelled as the age field and is the integer of the first run of
\* digits in that item's value text (label excluded); sex comes only from an
\* item labelled gender or sex and is that item's lower-cased value; a field
\* with no such item stays None; and the returned Case carries the extracted
\* age and sex.
C7_PatientDemographics ==
    (IsCase /\ pc = "returned") =>
      /\ Page0.patient = None => patient.age = None /\ patient.sex = None
      /\ patient.age # None =>
           \E i \in 1..Len(PatientItems) :
              /\ IsAgeItem(PatientItems[i])
              /\ FirstDigitRun(PatientItems[i].value) # << >>
              /\ patient.age[1] = ParseInt(FirstDigitRun(PatientItems[i].value))
      /\ patient.sex # None =>
           \E i \in 1..Len(PatientItems) :
              /\ IsSexItem(PatientItems[i])
              /\ patient.sex[1] = Lower(clean_text(PatientItems[i].value))
      /\ "patient" \in DOMAIN result[1]
      /\ result[1].patient.age = patient.age
      /\ result[1].patient.sex = patient.sex

\* The carousel positions (1-based) of the images that have a file reference.
WithSrc(carousel) ==
    {i \in 1..Len(carousel) : carousel[i] # None /\ carousel[i][1] # << >>}

\* C8: the returned images are exactly the carousel images that have a file
\* reference, in display order; an image's identifier is source_id, "_img_"
\* and the image's 1-based carousel position; identifiers within one Case
\* are pairwise distinct, also when images without a file reference are skipped.
C8_CaseImagesInDisplayOrder ==
    (IsCase /\ pc = "returned") =>
      LET carousel == Page0.carousel
          imgs == result[1].images
      IN /\ Len(imgs) = Cardinality(WithSrc(carousel))
         /\ \E f \in [1..Len(imgs) -> WithSrc(carousel)] :
              /\ \A a, b \in 1..Len(imgs) : a < b => f[a] < f[b]
              /\ \A a \in 1..Len(imgs) :
                   /\ imgs[a].filepath = carousel[f[a]][1]
                   /\ imgs[a].image_id =
                        result[1].source_id \o ImgInfix \o IntToStr(f[a])
         /\ \A a, b \in 1..Len(imgs) : a # b => imgs[a].image_id # imgs[b].image_id

C8_Witness ==
    /\ IsCase /\ pc = "returned"
    /\ Len(Page0.carousel) = 2
    /\ Page0.carousel[1] = None /\ Page0.carousel[2] # None
    /\ Len(result[1].images) = 1
    /\ result[1].images[1].image_id = UnknownId \o ImgInfix \o <<"2">>

====
